---- MODULE Spec2Model ----
(***************************************************************************)
(* Model of the Eagle tender pipeline of FENIX: the deduplication service  *)
(* (detect_new_tenders / store_new_tenders / _cleanup_old_tenders), the    *)
(* scan cycle of the scheduler that drives it and the periodic retention   *)
(* sweep (_cleanup_old_data_async).                                        *)
(*                                                                         *)
(* Text fields are sequences of one-character strings.  Scores, weights    *)
(* and thresholds are in tenths (0.7 is 7); similarities are exact         *)
(* fractions [num, den].  Time is counted in days.                         *)
(***************************************************************************)
EXTENDS Integers, Sequences, FiniteSets, TLC

\* ------------------------------------------------------------------ bounds
MaxBatch == 2          \* longest list of tenders one scan cycle scrapes
MaxIds == 2            \* rows ever inserted (uuid4 primary keys handed out)
MaxNow == 91           \* last day the clock reaches
MaxStoredTenders == 1  \* max_stored_tenders, scaled down from 10000

\* --------------------------------------------------------- program constants
SimilarityThreshold == 8   \* deduplication_similarity_threshold 0.8
TitleWeight == 5           \* title_similarity * 0.5
DescWeight == 3            \* desc_similarity * 0.3
LocWeight == 2             \* loc_similarity * 0.2
MinRelevanceScore == 3     \* settings.min_relevance_score 0.3
RetentionDays == 90        \* settings.tender_retention_days
RetentionRelevance == 7    \* StoredTender.relevance_score < 0.7
CleanupRelevance == 5      \* StoredTender.relevance_score < 0.5

\* ------------------------------------------------------------ text helpers
NULL == <<"\\N">>          \* Python None / SQL NULL in a text field
NoId == "None"             \* tender_id absent
NoScore == -1              \* relevance_score absent

\* str.lower()
LowerChar(c) == IF c = "W" THEN "w" ELSE IF c = "X" THEN "x" ELSE c
Lower(s) == [i \in 1..Len(s) |-> LowerChar(s[i])]

\* s[i:i+k] (1-based, k characters)
Slice(s, i, k) == [n \in 1..k |-> s[i + n - 1]]

\* title.split()[0]: the first whitespace-delimited token; <<>> stands for the
\* IndexError raised on a title that is all whitespace
FirstToken(s) ==
    LET starts == {i \in 1..Len(s) : s[i] # " "}
    IN IF starts = {} THEN <<>>
       ELSE LET b == CHOOSE i \in starts : \A j \in starts : i <= j
                ends == {i \in b..Len(s) : i = Len(s) \/ s[i + 1] = " "}
                e == CHOOSE i \in ends : \A j \in ends : i <= j
            IN Slice(s, b, e - b + 1)

\* column ILIKE '%tok%': case-insensitive substring test
ILikeContains(s, tok) ==
    \E i \in 1..(Len(s) - Len(tok) + 1) :
        Lower(Slice(s, i, Len(tok))) = Lower(tok)

\* difflib.SequenceMatcher.find_longest_match on a[alo:ahi], b[blo:bhi]
\* (half-open, 1-based): the longest common block, of those the one starting
\* earliest in a, of those the one starting earliest in b
Blocks(a, b, alo, ahi, blo, bhi) ==
    {m \in (alo..(ahi - 1)) \X (blo..(bhi - 1)) \X (1..Len(a)) :
        /\ m[1] + m[3] <= ahi
        /\ m[2] + m[3] <= bhi
        /\ Slice(a, m[1], m[3]) = Slice(b, m[2], m[3])}

LongestMatch(a, b, alo, ahi, blo, bhi) ==
    LET bs == Blocks(a, b, alo, ahi, blo, bhi)
    IN IF bs = {} THEN <<alo, blo, 0>>
       ELSE CHOOSE m \in bs : \A o \in bs :
                \/ m[3] > o[3]
                \/ m[3] = o[3] /\ m[1] < o[1]
                \/ m[3] = o[3] /\ m[1] = o[1] /\ m[2] <= o[2]

\* sum of the sizes of SequenceMatcher.get_matching_blocks()
RECURSIVE MatchCount(_, _, _, _, _, _)
MatchCount(a, b, alo, ahi, blo, bhi) ==
    LET m == LongestMatch(a, b, alo, ahi, blo, bhi)
    IN IF m[3] = 0 THEN 0
       ELSE m[3] + MatchCount(a, b, alo, m[1], blo, m[2])
                 + MatchCount(a, b, m[1] + m[3], ahi, m[2] + m[3], bhi)

\* SequenceMatcher(None, a, b).ratio() = 2.0 * M / T as the fraction [num, den]
Ratio(a, b) ==
    IF Len(a) + Len(b) = 0 THEN [num |-> 1, den |-> 1]
    ELSE [num |-> 2 * MatchCount(a, b, 1, Len(a) + 1, 1, Len(b) + 1),
          den |-> Len(a) + Len(b)]

\* exact fraction arithmetic, in lowest terms
RECURSIVE Gcd(_, _)
Gcd(m, n) == IF n = 0 THEN m ELSE Gcd(n, m % n)

Frac(n, d) == LET g == Gcd(d, n) IN [num |-> n \div g, den |-> d \div g]
FracAdd(x, y) == Frac(x.num * y.den + y.num * x.den, x.den * y.den)
FracGT(x, y) == x.num * y.den > y.num * x.den
FracEq(x, y) == x.num * y.den = y.num * x.den

RECURSIVE FracSum(_)
FracSum(fs) ==
    IF fs = <<>> THEN [num |-> 0, den |-> 1]
    ELSE FracAdd(Head(fs), FracSum(Tail(fs)))

\* ------------------------------------------------------- scraped tenders
\* The candidate dicts a scraper can return (TenderData.model_dump()).
Str_wc == <<"w", " ", "c">>
Str_Wx == <<"W", " ", "x">>
Str_d == <<"d">>
Str_l == <<"l">>

Tender(id, title, desc, src, url, loc, score) ==
    [tender_id |-> id, title |-> title, description |-> desc, source |-> src,
     source_url |-> url, location |-> loc, relevance_score |-> score]

T1 == Tender("i1", Str_wc, Str_d, "s1", "u1", Str_l, 7)
T2 == Tender(NoId, Str_wc, Str_d, "s1", "u2", Str_l, 3)
T3 == Tender("i1", <<>>, Str_d, "s2", "", NULL, 6)
T4 == Tender("i4", Str_Wx, Str_d, "s1", "u4", Str_l, 2)
T5 == Tender("i5", Str_wc, Str_d, "s2", "u5", Str_l, NoScore)

Tenders == {T1, T2, T3, T4, T5}

RECURSIVE SeqsUpTo(_, _)
SeqsUpTo(S, n) ==
    IF n = 0 THEN {<<>>}
    ELSE LET shorter == SeqsUpTo(S, n - 1)
         IN shorter \cup {Append(q, x) : q \in {r \in shorter : Len(r) = n - 1}, x \in S}

\* ----------------------------------------------------- DeduplicationService
\* one weighted field score of _calculate_similarity, appended when both
\* texts are non-empty
FieldScores(a, b, weight) ==
    IF a # <<>> /\ b # <<>>
    THEN LET r == Ratio(a, b) IN <<Frac(r.num * weight, r.den * 10)>>
    ELSE <<>>

\* a stored column read as "x.lower() if x else ''"
ColumnText(v) == IF v = NULL THEN <<>> ELSE Lower(v)

\* mutant: the plain weighted sum, not divided
DividedByCount_Undivided(fs) == FracSum(fs)

\* _calculate_similarity: sum(scores) / len(scores), 0.0 when no field is
\* compared or when .lower() is called on a None field of the candidate
DividedByCount(fs) ==
    IF fs = <<>> THEN [num |-> 0, den |-> 1]
    ELSE LET t == FracSum(fs) IN Frac(t.num, t.den * Len(fs))

_calculate_similarity(tender1, tender2) ==
    IF NULL \in {tender1.title, tender1.description, tender1.location}
    THEN [num |-> 0, den |-> 1]
    ELSE DividedByCount(
            FieldScores(Lower(tender1.title), ColumnText(tender2.title), TitleWeight)
         \o FieldScores(Lower(tender1.description), ColumnText(tender2.description), DescWeight)
         \o FieldScores(Lower(tender1.location), ColumnText(tender2.location), LocWeight))

\* the rows the fuzzy query returns: same source, title ILIKE %first token%
similar_candidates(tender, rows) ==
    {r \in rows : /\ r.source = tender.source
                  /\ r.title # NULL
                  /\ ILikeContains(r.title, FirstToken(tender.title))}

ExceedsThreshold(sim) == FracGT(sim, [num |-> SimilarityThreshold, den |-> 10])

\* the fuzzy query is issued only for a title with a first token
FuzzyQueryIssued(tender) ==
    tender.title # <<>> /\ tender.title # NULL /\ FirstToken(tender.title) # <<>>

\* mutant: every row the fuzzy query returns counts as similar
_is_similar_tender_AnyCandidate(tender, rows, queryFails) ==
    /\ FuzzyQueryIssued(tender) /\ ~queryFails
    /\ similar_candidates(tender, rows) # {}

\* _is_similar_tender; queryFails: the fuzzy query raises
_is_similar_tender(tender, rows, queryFails) ==
    IF ~FuzzyQueryIssued(tender) \/ queryFails THEN FALSE
    ELSE \E c \in similar_candidates(tender, rows) :
            ExceedsThreshold(_calculate_similarity(tender, c))

Faults == {"none", "url", "id", "fuzzy"}

UrlQueryIssued(tender) == tender.source_url # ""
IdQueryIssued(tender) == tender.tender_id # NoId

\* mutant: the source_url lookup is left out
_is_duplicate_SkipsUrl(tender, rows, fault) ==
    LET byId == IdQueryIssued(tender)
                /\ \E r \in rows : r.tender_id = tender.tender_id
    IN IF IdQueryIssued(tender) /\ fault = "id" THEN FALSE
       ELSE IF byId THEN TRUE
       ELSE _is_similar_tender(tender, rows, fault = "fuzzy")

\* mutant: a read that raises makes the candidate a duplicate (fail closed)
_is_duplicate_FailClosed(tender, rows, fault) ==
    \/ fault # "none"
    \/ UrlQueryIssued(tender) /\ \E r \in rows : r.source_url = tender.source_url
    \/ IdQueryIssued(tender) /\ \E r \in rows : r.tender_id = tender.tender_id
    \/ _is_similar_tender(tender, rows, FALSE)

\* _is_duplicate; fault names the storage read that raises for this candidate
_is_duplicate(tender, rows, fault) ==
    LET byUrl == UrlQueryIssued(tender)
                 /\ \E r \in rows : r.source_url = tender.source_url
        byId == IdQueryIssued(tender)
                /\ \E r \in rows : r.tender_id = tender.tender_id
    IN IF UrlQueryIssued(tender) /\ fault = "url" THEN FALSE
       ELSE IF byUrl THEN TRUE
       ELSE IF IdQueryIssued(tender) /\ fault = "id" THEN FALSE
       ELSE IF byId THEN TRUE
       ELSE _is_similar_tender(tender, rows, fault = "fuzzy")

\* detect_new_tenders: the candidates that are not duplicates, in order
RECURSIVE detect_new_tenders(_, _, _)
detect_new_tenders(scraped, rows, fs) ==
    IF scraped = <<>> THEN <<>>
    ELSE LET rest == detect_new_tenders(Tail(scraped), rows, Tail(fs))
         IN IF _is_duplicate(Head(scraped), rows, Head(fs))
            THEN rest ELSE <<Head(scraped)>> \o rest

\* mutant: every tender a source lists is taken as relevant
relevant_tenders_Unfiltered(ts) == ts

\* the relevance filter of the scan cycle: (score or 0) >= min_relevance_score
RECURSIVE relevant_tenders(_)
relevant_tenders(ts) ==
    IF ts = <<>> THEN <<>>
    ELSE LET t == Head(ts)
             score == IF t.relevance_score = NoScore THEN 0 ELSE t.relevance_score
         IN (IF score >= MinRelevanceScore THEN <<t>> ELSE <<>>)
            \o relevant_tenders(Tail(ts))

\* ------------------------------------------------------------------ state
Workers == {"w1"}      \* the Celery worker running the scheduled scan cycles
Cycles == {"w1", "w2"} \* the scan tasks that can be in progress: scheduled, manual

Sources == {"s1", "s2"}    \* config.sources
Outcomes == {"no_job", "failed", "timeout", "raised", "completed"}

VARIABLES
    store,        \* committed rows of stored_tenders
    nextId,       \* primary keys handed out so far
    now,          \* the clock, in days
    pc,           \* per cycle: position in the scan cycle
    batch,        \* per cycle: config_new_tenders
    faults,       \* per cycle: the read that raised, per candidate
    new_tenders,  \* per cycle: result of detect_new_tenders
    stored_ids,   \* per cycle: primary keys of stored_tenders
    raised,       \* per cycle: the storage error met inside store_new_tenders
    job_status,   \* per cycle: how the job of each source ended, until the
                  \* batch is handed to detect_new_tenders
    listed,       \* per cycle: the tenders the sources list, until then
    sweep,        \* "completed" right after a retention sweep that succeeded
    jobs,         \* ScraperService.jobs, the job table of the Eagle service
    probe         \* frame of the function or task under study: its
                  \* arguments, its locals and its result

vars == <<store, nextId, now, pc, batch, faults, new_tenders, stored_ids,
          raised, job_status, listed, sweep, jobs, probe>>
locals == <<batch, faults, new_tenders, stored_ids, raised, job_status, listed>>
outside == <<jobs, probe>>     \* what no step of the tender pipeline touches
NoJobs == [s \in Sources |-> "no_job"]

\* mutant: the row is inserted already marked as notified
Row_Notified(id, t, created) ==
    [id |-> id, tender_id |-> t.tender_id, title |-> t.title,
     description |-> t.description, source |-> t.source,
     source_url |-> t.source_url, location |-> t.location,
     relevance_score |-> t.relevance_score, created_at |-> created,
     is_notified |-> TRUE]

\* StoredTender(...) built by store_new_tenders; created_at defaults to now()
Row(id, t, created) ==
    [id |-> id, tender_id |-> t.tender_id, title |-> t.title,
     description |-> t.description, source |-> t.source,
     source_url |-> t.source_url, location |-> t.location,
     relevance_score |-> t.relevance_score, created_at |-> created,
     is_notified |-> FALSE]

Forget(w) ==
    /\ batch' = [batch EXCEPT ![w] = <<>>]
    /\ faults' = [faults EXCEPT ![w] = <<>>]
    /\ new_tenders' = [new_tenders EXCEPT ![w] = <<>>]
    /\ stored_ids' = [stored_ids EXCEPT ![w] = {}]
    /\ raised' = [raised EXCEPT ![w] = "none"]
    /\ job_status' = [job_status EXCEPT ![w] = NoJobs]
    /\ listed' = [listed EXCEPT ![w] = <<>>]

\* an empty table and no scan task in progress
Idle ==
    /\ store = {}
    /\ nextId = 0
    /\ now = 0
    /\ pc = [w \in Cycles |-> "idle"]
    /\ batch = [w \in Cycles |-> <<>>]
    /\ faults = [w \in Cycles |-> <<>>]
    /\ new_tenders = [w \in Cycles |-> <<>>]
    /\ stored_ids = [w \in Cycles |-> {}]
    /\ raised = [w \in Cycles |-> "none"]
    /\ job_status = [w \in Cycles |-> NoJobs]
    /\ listed = [w \in Cycles |-> <<>>]
    /\ sweep = "none"

Init ==
    /\ Idle
    /\ jobs = {}
    /\ probe = <<>>

\* ------------------------------------------------------------- scan cycle
\* mutant: the tenders a source lists are taken whatever became of its job
source_results_AnyOutcome(results, outcome) == results

\* the tenders the loop over config.sources collects: what a source lists is
\* fetched only when its job was created, did not raise and was reported
\* "completed" before the timeout; every other source is skipped
source_results(results, outcome) ==
    SelectSeq(results, LAMBDA t : outcome[t.source] = "completed")

\* _daily_tender_scan_async, one monitoring config: the sources are scraped
\* and the relevant tenders collected in config_new_tenders
ScrapeResults(w, results) ==
    /\ pc[w] = "idle"
    /\ \E outcome \in [Sources -> Outcomes] :
          LET config_new_tenders == relevant_tenders(source_results(results, outcome))
          IN IF config_new_tenders = <<>>
             THEN UNCHANGED <<pc, locals>>
             ELSE /\ pc' = [pc EXCEPT ![w] = "scraped"]
                  /\ batch' = [batch EXCEPT ![w] = config_new_tenders]
                  /\ job_status' = [job_status EXCEPT ![w] = outcome]
                  /\ listed' = [listed EXCEPT ![w] = results]
                  /\ UNCHANGED <<faults, new_tenders, stored_ids, raised>>
    /\ UNCHANGED <<store, nextId, now, outside>>
    /\ sweep' = "none"

Scrape(w) == \E results \in SeqsUpTo(Tenders, MaxBatch) : ScrapeResults(w, results)

\* the storage reads _is_duplicate issues for a candidate, each of which can
\* raise: a read is issued only if the reads before it found nothing
ReadsIssued(tender, rows) ==
    LET byUrl == \E r \in rows : r.source_url = tender.source_url
        byId == \E r \in rows : r.tender_id = tender.tender_id
        url == UrlQueryIssued(tender)
        id == IdQueryIssued(tender) /\ ~(url /\ byUrl)
        fuzzy == FuzzyQueryIssued(tender) /\ ~(url /\ byUrl)
                 /\ ~(IdQueryIssued(tender) /\ byId)
    IN (IF url THEN {"url"} ELSE {}) \cup (IF id THEN {"id"} ELSE {})
       \cup (IF fuzzy THEN {"fuzzy"} ELSE {})

\* deduplication_service.detect_new_tenders(config_new_tenders); any of the
\* storage reads it issues may raise.  An empty result ends the config.
Detect(w) ==
    /\ pc[w] = "scraped"
    /\ \E fs \in [1..Len(batch[w]) -> Faults] :
          LET new == detect_new_tenders(batch[w], store, fs)
          IN /\ \A i \in 1..Len(fs) :
                   fs[i] \in {"none"} \cup ReadsIssued(batch[w][i], store)
             /\ faults' = [faults EXCEPT ![w] = fs]
             /\ new_tenders' = [new_tenders EXCEPT ![w] = new]
             /\ pc' = [pc EXCEPT ![w] = IF new = <<>> THEN "skipped" ELSE "detected"]
    /\ job_status' = [job_status EXCEPT ![w] = NoJobs]
    /\ listed' = [listed EXCEPT ![w] = <<>>]
    /\ sweep' = "none"
    /\ UNCHANGED <<store, nextId, now, batch, stored_ids, raised, outside>>

\* no new tender: the empty-report branch, then the config is done
Skip(w) ==
    /\ pc[w] = "skipped"
    /\ pc' = [pc EXCEPT ![w] = "idle"]
    /\ Forget(w)
    /\ UNCHANGED <<store, nextId, now, outside>>
    /\ sweep' = "none"

\* mutant: an error of the insert commit or of the flag commit is swallowed
AfterStoreError_Swallowed(phase) == "stored"

\* where store_new_tenders ends after a storage error: the errors of the two
\* commits reach "except Exception: db.rollback(); raise e", the errors of
\* _cleanup_old_tenders are caught and logged inside it and store_new_tenders
\* returns stored_tenders
AfterStoreError(phase) == IF phase = "cleanup" THEN "stored" ELSE "failed"

\* the unique index on stored_tenders.tender_id
ViolatesUnique(rows, added) ==
    \/ \E a \in added : a.tender_id # NoId /\ \E r \in rows : r.tender_id = a.tender_id
    \/ \E a, b \in added : a.id # b.id /\ a.tender_id # NoId /\ a.tender_id = b.tender_id

NewRows(ts, first, created) == {Row(first + i, ts[i], created) : i \in 1..Len(ts)}

\* store_new_tenders up to the first db.commit(): every tender is added with
\* is_notified = False and the batch is inserted in one transaction; a
\* failing commit rolls back and the exception is raised
StoreInsert(w) ==
    /\ pc[w] = "detected"
    /\ LET added == NewRows(new_tenders[w], nextId, now)
       IN \/ /\ nextId + Len(new_tenders[w]) <= MaxIds
             /\ ~ViolatesUnique(store, added)
             /\ store' = store \cup added
             /\ stored_ids' = [stored_ids EXCEPT ![w] = {a.id : a \in added}]
             /\ pc' = [pc EXCEPT ![w] = "inserted"]
             /\ nextId' = nextId + Len(new_tenders[w])
             /\ UNCHANGED raised
          \/ /\ UNCHANGED <<store, stored_ids, nextId>>
             /\ raised' = [raised EXCEPT ![w] = "insert"]
             /\ pc' = [pc EXCEPT ![w] = AfterStoreError("insert")]
    /\ batch' = [batch EXCEPT ![w] = <<>>]
    /\ faults' = [faults EXCEPT ![w] = <<>>]
    /\ sweep' = "none"
    /\ UNCHANGED <<now, new_tenders, job_status, listed, outside>>

\* "tender.is_notified = True" for every stored tender and the second
\* db.commit(); the UPDATE of a row deleted meanwhile raises
StoreMarkNotified(w) ==
    /\ pc[w] = "inserted"
    /\ \/ /\ \A i \in stored_ids[w] : \E r \in store : r.id = i
          /\ store' = {IF r.id \in stored_ids[w]
                       THEN [r EXCEPT !.is_notified = TRUE] ELSE r : r \in store}
          /\ pc' = [pc EXCEPT ![w] = "flagged"]
          /\ UNCHANGED raised
       \/ /\ UNCHANGED store
          /\ raised' = [raised EXCEPT ![w] = "flag"]
          /\ pc' = [pc EXCEPT ![w] = AfterStoreError("flag")]
    /\ sweep' = "none"
    /\ UNCHANGED <<nextId, now, batch, faults, new_tenders, stored_ids,
                   job_status, listed, outside>>

\* mutant: the low-relevance rows are deleted whatever the row count
OldestLow_Always(rows, victims) ==
    victims = {r \in rows : r.relevance_score # NoScore
                            /\ r.relevance_score < CleanupRelevance}

\* the rows _cleanup_old_tenders may delete: the oldest excess_count rows
\* with relevance_score < 0.5 (the order among equal created_at is the
\* database's choice)
OldestLow(rows, victims) ==
    LET count == Cardinality(rows)
        low == {r \in rows : r.relevance_score # NoScore
                            /\ r.relevance_score < CleanupRelevance}
        excess_count == count - MaxStoredTenders
    IN /\ victims \subseteq low
       /\ IF count > MaxStoredTenders
          THEN /\ Cardinality(victims) = IF Cardinality(low) < excess_count
                                         THEN Cardinality(low) ELSE excess_count
               /\ \A v \in victims : \A r \in low \ victims :
                     v.created_at <= r.created_at
          ELSE victims = {}

\* _cleanup_old_tenders(db) called at the end of store_new_tenders; its
\* exceptions are logged and swallowed, then store_new_tenders returns
StoreCleanup(w) ==
    /\ pc[w] = "flagged"
    /\ \/ /\ \E victims \in SUBSET store :
                /\ OldestLow(store, victims)
                /\ store' = store \ victims
          /\ pc' = [pc EXCEPT ![w] = "stored"]
          /\ UNCHANGED raised
       \/ /\ UNCHANGED store
          /\ raised' = [raised EXCEPT ![w] = "cleanup"]
          /\ pc' = [pc EXCEPT ![w] = AfterStoreError("cleanup")]
    /\ sweep' = "none"
    /\ UNCHANGED <<nextId, now, batch, faults, new_tenders, stored_ids,
                   job_status, listed, outside>>

\* email_service.send_tender_notification(new_tenders); success or failure
\* is only logged, and the config is done
Notify(w) ==
    /\ pc[w] = "stored"
    /\ pc' = [pc EXCEPT ![w] = "idle"]
    /\ Forget(w)
    /\ UNCHANGED <<store, nextId, now, outside>>
    /\ sweep' = "none"

\* the exception of store_new_tenders leaves _daily_tender_scan_async and the
\* task is retried: a later cycle starts from the beginning
TaskRetry(w) ==
    /\ pc[w] = "failed"
    /\ pc' = [pc EXCEPT ![w] = "idle"]
    /\ Forget(w)
    /\ UNCHANGED <<store, nextId, now, outside>>
    /\ sweep' = "none"

\* the worker process dies in the middle of a cycle, before its last storage
\* write (a death after it leaves the state a completed cycle leaves)
Crash(w) ==
    /\ pc[w] \in {"scraped", "detected", "inserted", "flagged"}
    /\ pc' = [pc EXCEPT ![w] = "idle"]
    /\ Forget(w)
    /\ UNCHANGED <<store, nextId, now, outside>>
    /\ sweep' = "none"

\* -------------------------------------------------------- retention sweep
\* mutant: relevance_score <= 0.7 instead of < 0.7
Expired_UpToThreshold(rows, today) ==
    {r \in rows : /\ r.created_at < today - RetentionDays
                  /\ r.relevance_score # NoScore
                  /\ r.relevance_score <= RetentionRelevance}

\* mutant: created_at <= cutoff instead of < cutoff
Expired_AtCutoff(rows, today) ==
    {r \in rows : /\ r.created_at <= today - RetentionDays
                  /\ r.relevance_score # NoScore
                  /\ r.relevance_score < RetentionRelevance}

\* the rows the sweep's DELETE matches
Expired(rows, today) ==
    {r \in rows : /\ r.created_at < today - RetentionDays
                  /\ r.relevance_score # NoScore
                  /\ r.relevance_score < RetentionRelevance}

\* _cleanup_old_data_async: delete and commit, or roll back and raise
CleanupOldData ==
    /\ \/ /\ store' = store \ Expired(store, now)
          /\ sweep' = "completed"
       \/ /\ UNCHANGED store
          /\ sweep' = "none"
    /\ UNCHANGED <<nextId, now, pc, locals, outside>>

\* time passes: straight to the last day on which a row created on day 0 is
\* not yet older than the retention period, then day by day
Tick ==
    /\ now' = IF now < RetentionDays THEN RetentionDays ELSE now + 1
    /\ now' <= MaxNow
    /\ sweep' = "none"
    /\ UNCHANGED <<store, nextId, pc, locals, outside>>

Next ==
    \/ \E w \in Workers : Scrape(w)
    \/ \E w \in Workers : Detect(w)
    \/ \E w \in Workers : Skip(w)
    \/ \E w \in Workers : StoreInsert(w)
    \/ \E w \in Workers : StoreMarkNotified(w)
    \/ \E w \in Workers : StoreCleanup(w)
    \/ \E w \in Workers : Notify(w)
    \/ \E w \in Workers : TaskRetry(w)
    \/ \E w \in Workers : Crash(w)
    \/ CleanupOldData
    \/ Tick

Spec == Init /\ [][Next]_vars

\* a step in which something goes wrong: a worker dies, a storage read of the
\* duplicate check raises, or store_new_tenders raises
Failure ==
    \E w \in Workers :
        \/ Crash(w)
        \/ pc[w] # "failed" /\ pc'[w] = "failed"
        \/ pc[w] = "scraped" /\ \E i \in 1..Len(faults'[w]) : faults'[w][i] # "none"

\* a scan cycle whose sources list exactly the tender t, which is stored
ScrapeStored(w, t) ==
    /\ \E r \in store : /\ r.tender_id = t.tender_id
                         /\ r.source_url = t.source_url
                         /\ r.title = t.title
    /\ ScrapeResults(w, <<t>>)

\* The beat schedule starts a scan every day and a started cycle runs on: the
\* steps of a cycle are weakly fair, and every stored tender is listed by its
\* source, and scraped, again and again.  Crashes and storage errors are
\* transient: from some day on none occurs.  The sweep and the clock are not
\* forced.
CycleFairness(w) ==
    /\ WF_vars(Detect(w))
    /\ WF_vars(Skip(w))
    /\ WF_vars(StoreInsert(w))
    /\ WF_vars(StoreMarkNotified(w))
    /\ WF_vars(StoreCleanup(w))
    /\ WF_vars(Notify(w))
    /\ WF_vars(TaskRetry(w))
    /\ \A t \in Tenders : SF_vars(ScrapeStored(w, t))

FairSpec ==
    /\ Spec
    /\ \A w \in Workers : CycleFairness(w)
    /\ <>[][~Failure]_vars

\* ------------------------------------------------------------- properties
Range(q) == {q[i] : i \in 1..Len(q)}
Ids(rows) == {r.id : r \in rows}

\* a step in which worker w runs detect_new_tenders on batch[w] against store
DetectStep(w) == pc[w] = "scraped" /\ pc'[w] \in {"detected", "skipped"}

UrlInStore(t, rows) == t.source_url # "" /\ \E r \in rows : r.source_url = t.source_url
IdInStore(t, rows) == t.tender_id # NoId /\ \E r \in rows : r.tender_id = t.tender_id

\* every storage read issued for a candidate equal to t succeeded
ReadsOk(w, t) == \A j \in 1..Len(batch[w]) : batch[w][j] = t => faults'[w][j] = "none"

\* C1: a candidate whose non-empty source_url equals the source_url of a
\* stored record is not in the list detect_new_tenders returns, provided the
\* storage reads of its check succeed.
C1_UrlMatchExcluded ==
    [][\A w \in Workers : DetectStep(w) =>
          \A t \in Range(batch[w]) :
              (UrlInStore(t, store) /\ ReadsOk(w, t)) => t \notin Range(new_tenders'[w])]_vars

\* C1 witness: detect_new_tenders has returned without a candidate whose
\* source_url is stored, all reads having succeeded.
C1_Witness ==
    \E w \in Workers :
        /\ pc[w] \in {"detected", "skipped"}
        /\ \A j \in 1..Len(faults[w]) : faults[w][j] = "none"
        /\ \E t \in Range(batch[w]) : UrlInStore(t, store) /\ t \notin Range(new_tenders[w])

\* C2: no two stored records have the same (source, source_url) pair with a
\* non-empty source_url, after any sequence of scan cycles run one at a time.
C2_UniqueSourceUrl ==
    \A r1, r2 \in store :
        (r1.id # r2.id /\ r1.source_url # "" /\ r1.source = r2.source)
            => r1.source_url # r2.source_url

\* the similarity of the specification: the weighted field similarities
\* divided by the sum of the weights of the fields used
WeightsUsed(tender1, tender2) ==
      (IF tender1.title # <<>> /\ ColumnText(tender2.title) # <<>> THEN TitleWeight ELSE 0)
    + (IF tender1.description # <<>> /\ ColumnText(tender2.description) # <<>> THEN DescWeight ELSE 0)
    + (IF tender1.location # <<>> /\ ColumnText(tender2.location) # <<>> THEN LocWeight ELSE 0)

WeightedSum(tender1, tender2) ==
    FracSum(FieldScores(Lower(tender1.title), ColumnText(tender2.title), TitleWeight)
         \o FieldScores(Lower(tender1.description), ColumnText(tender2.description), DescWeight)
         \o FieldScores(Lower(tender1.location), ColumnText(tender2.location), LocWeight))

\* sim = WeightedSum / (WeightsUsed / 10)
NormalisedByWeights(sim, tender1, tender2) ==
    LET ws == WeightedSum(tender1, tender2)
    IN sim.num * ws.den * WeightsUsed(tender1, tender2) = 10 * ws.num * sim.den

SameText(t, r) ==
    /\ t.title # <<>> /\ t.title = r.title
    /\ t.description # <<>> /\ t.description = r.description
    /\ t.location \notin {<<>>, NULL} /\ t.location = r.location

\* C3: the fuzzy step divides the weighted field similarities by the sum of
\* the weights of the fields used, and a candidate with the title,
\* description and location of a stored record of its source, but another
\* source_url and tender_id, is classified as a duplicate.
C3_IdenticalTextIsDuplicate ==
    [][\A w \in Workers : DetectStep(w) =>
          \A t \in Range(batch[w]) : \A r \in store :
              (SameText(t, r) /\ t.source = r.source /\ ReadsOk(w, t)
               /\ t.source_url # r.source_url /\ t.tender_id # r.tender_id)
              => /\ NormalisedByWeights(_calculate_similarity(t, r), t, r)
                 /\ t \notin Range(new_tenders'[w])]_vars

BelowThreshold(sim) == sim.num * 10 < SimilarityThreshold * sim.den

\* C4 as stated: a candidate whose similarity to every stored record is below
\* the threshold is in the list detect_new_tenders returns.
C4_Original ==
    [][\A w \in Workers : DetectStep(w) =>
          \A t \in Range(batch[w]) :
              (\A r \in store : BelowThreshold(_calculate_similarity(t, r)))
                  => t \in Range(new_tenders'[w])]_vars

\* C4 as amended: a candidate with no stored record of its source_url or
\* tender_id and whose similarity to every stored record is below the
\* threshold is in the list detect_new_tenders returns.
C4_NoMatchIncluded ==
    [][\A w \in Workers : DetectStep(w) =>
          \A t \in Range(batch[w]) :
              (/\ ~UrlInStore(t, store)
               /\ ~IdInStore(t, store)
               /\ \A r \in store : BelowThreshold(_calculate_similarity(t, r)))
                  => t \in Range(new_tenders'[w])]_vars

\* C4 witness: a candidate with the text of a stored record of its source but
\* an unknown source_url and no tender_id has been returned as new.
C4_Witness ==
    \E w \in Workers :
        /\ pc[w] = "detected"
        /\ \E t \in Range(new_tenders[w]) :
              /\ ~UrlInStore(t, store) /\ ~IdInStore(t, store)
              /\ \E r \in store : SameText(t, r) /\ r.source = t.source
              /\ \A r \in store : BelowThreshold(_calculate_similarity(t, r))

\* a step of store_new_tenders by worker w
StoreStep(w) == pc[w] \in {"detected", "inserted", "flagged"} /\ pc'[w] # pc[w]

\* the worker dies between the insert commit and the flag commit
CrashBetweenCommits(w) == pc[w] = "inserted" /\ pc'[w] = "idle"

\* C5: store_new_tenders inserts every record with is_notified = false and
\* sets it to true only after the insert commit; no record appears in the
\* store with is_notified = true, and a crash between the two commits leaves
\* every record of the batch stored with is_notified = false.
C5_InsertedUnnotified ==
    [][/\ \A r \in store' : r.id \notin Ids(store) => ~r.is_notified
       /\ \A w \in Workers :
             /\ pc'[w] = "inserted" =>
                   \A r \in store' : r.id \in stored_ids'[w] => ~r.is_notified
             /\ CrashBetweenCommits(w) =>
                   /\ store' = store
                   /\ Len(new_tenders[w]) = Cardinality(stored_ids[w])
                   /\ \A r \in store' : r.id \in stored_ids[w] => ~r.is_notified]_vars

\* C5 witness: after a crash between the two commits the whole batch is in
\* the store, unnotified, and no worker is in a cycle.
C5_Witness ==
    /\ \A w \in Workers : pc[w] = "idle"
    /\ Cardinality(store) = MaxBatch
    /\ \A r \in store : ~r.is_notified /\ r.created_at = now

\* C7: no step deletes a stored record whose relevance_score is at least 0.7.
C7_HighRelevanceKept ==
    [][\A r \in store : r.relevance_score >= 7 => r.id \in Ids(store')]_vars

\* C7 witness: a sweep has completed and a record with relevance_score >= 0.7
\* that is older than the retention period is still stored.
C7_Witness ==
    /\ sweep = "completed"
    /\ \E r \in store : r.relevance_score >= 7 /\ r.created_at < now - 90

\* the records the retention rule names: older than the cutoff and below 0.7
OldAndLow(rows, today) ==
    {r \in rows : r.created_at < today - 90 /\ r.relevance_score < 7}

\* C8: after a successful retention sweep no stored record is both older than
\* the cutoff and below 0.7, and the sweep deletes no other record.
C8_SweepExact ==
    /\ [](sweep = "completed" => OldAndLow(store, now) = {})
    /\ [][sweep' = "completed" => store' = store \ OldAndLow(store, now)]_vars

\* C8 witness: a sweep has completed that deleted a record and kept a record
\* below 0.7 that is exactly at the cutoff.
C8_Witness ==
    /\ sweep = "completed"
    /\ Cardinality(store) < nextId
    /\ \E r \in store : r.relevance_score < 7 /\ r.created_at = now - 90

\* C9 as stated: no step of store_new_tenders deletes a stored record.
C9_Original ==
    [][\A w \in Workers : StoreStep(w) => Ids(store) \subseteq Ids(store')]_vars

\* C9 as amended: store_new_tenders deletes stored records only in its final
\* cleanup and only when more than max_stored_tenders records are stored: then
\* at most count - max_stored_tenders records, each with relevance_score below
\* 0.5 and none newer than a record below 0.5 that is kept; every other
\* deletion is the retention sweep's.
C9_DeletesOnlyExcess ==
    [][LET deleted == {r \in store : r.id \notin Ids(store')}
       IN deleted # {} =>
            \/ sweep' = "completed"
            \/ \E w \in Workers :
                  /\ pc[w] = "flagged" /\ pc'[w] = "stored"
                  /\ Cardinality(store) > MaxStoredTenders
                  /\ Cardinality(deleted) <= Cardinality(store) - MaxStoredTenders
                  /\ \A d \in deleted :
                        /\ d.relevance_score < 5
                        /\ \A r \in store' : r.relevance_score < 5
                                              => d.created_at <= r.created_at]_vars

\* C9 witness: store_new_tenders has returned on day 0, when the sweep can
\* delete nothing, and a stored record is gone.
C9_Witness ==
    \E w \in Workers :
        /\ pc[w] = "stored"
        /\ now = 0
        /\ Cardinality(store) < nextId

\* C10: a candidate for which a storage read raised is in the list
\* detect_new_tenders returns, and a candidate missing from the list has a
\* stored record with its source_url or tender_id or one similar to it;
\* detect_new_tenders always returns.
C10_FailOpen ==
    [][\A w \in Workers : (pc[w] = "scraped" /\ pc'[w] \notin {"scraped", "idle"}) =>
          /\ DetectStep(w)
          /\ \A i \in 1..Len(batch[w]) :
                faults'[w][i] # "none" => batch[w][i] \in Range(new_tenders'[w])
          /\ \A t \in Range(batch[w]) :
                t \notin Range(new_tenders'[w]) =>
                    \/ UrlInStore(t, store)
                    \/ IdInStore(t, store)
                    \/ \E r \in store : ~BelowThreshold(_calculate_similarity(t, r))]_vars

\* C10 witness: a candidate whose source_url is stored was returned as new
\* because the lookup raised.
C10_Witness ==
    \E w \in Workers :
        /\ pc[w] = "detected"
        /\ \E i \in 1..Len(batch[w]) :
              /\ faults[w][i] = "url"
              /\ UrlInStore(batch[w][i], store)
              /\ batch[w][i] \in Range(new_tenders[w])

Unnotified(i) == \E r \in store : r.id = i /\ ~r.is_notified
Notified(i) == \E r \in store : r.id = i /\ r.is_notified

\* C6: every record stored with is_notified = false is, under fair repetition
\* of the scan cycles, eventually picked up by a notification pass and its
\* flag set to true (a record deleted before that is not held against the
\* claim).
C6_UnnotifiedEventuallyNotified ==
    \A i \in 1..MaxIds : Unnotified(i) ~> (Notified(i) \/ i \notin Ids(store))

\* C11 as stated: every storage error inside store_new_tenders is propagated,
\* and store_new_tenders never returns normally after one.
C11_Original ==
    [][\A w \in Workers :
          /\ (raised[w] = "none" /\ raised'[w] # "none") => pc'[w] = "failed"
          /\ pc'[w] = "stored" => raised'[w] = "none"]_vars

\* C11 as amended: a storage error of the insert commit or of the flag commit
\* is propagated to the caller, and store_new_tenders returns normally only
\* if neither occurred; a storage error inside the cleanup it runs is logged
\* there and store_new_tenders returns normally.
C11_CommitErrorsPropagated ==
    [][\A w \in Workers :
          /\ (raised[w] = "none" /\ raised'[w] \in {"insert", "flag"}) => pc'[w] = "failed"
          /\ (raised[w] = "none" /\ raised'[w] = "cleanup") => pc'[w] = "stored"
          /\ pc'[w] = "stored" => raised'[w] \in {"none", "cleanup"}]_vars

\* C11 witness: the flag commit of a stored batch raised and store_new_tenders
\* ended with the exception.
C11_Witness ==
    \E w \in Workers :
        pc[w] = "failed" /\ raised[w] = "flag" /\ stored_ids[w] # {}

\* C12: whenever store_new_tenders finishes, by returning or by raising, every
\* record of the batch is in the store or none is, and none is when it raises.
C12_AllOrNothing ==
    [][\A w \in Workers :
          (StoreStep(w) /\ pc'[w] \in {"stored", "failed"}) =>
              LET mine == {r \in store' : r.id \in stored_ids'[w]}
              IN /\ Cardinality(mine) \in {0, Len(new_tenders[w])}
                 /\ pc'[w] = "failed" => mine = {}]_vars

NoTitle(t) == t.title \in {<<>>, NULL}

\* C13: a candidate with a missing or empty title is not in the list
\* detect_new_tenders returns and is never stored.
C13_NoTitleDropped ==
    /\ [][\A w \in Workers : DetectStep(w) =>
             \A t \in Range(batch[w]) : NoTitle(t) => t \notin Range(new_tenders'[w])]_vars
    /\ [](\A r \in store : ~NoTitle(r))

\* C15: every tender passed to detect_new_tenders comes from a source whose
\* job reached status completed in this cycle.
C15_OnlyCompletedSources ==
    [][\A w \in Workers : DetectStep(w) =>
          \A t \in Range(batch[w]) : job_status[w][t.source] = "completed"]_vars

\* C15 witness: a source whose job did not complete lists a relevant tender,
\* and the batch about to be checked holds none of that source.
C15_Witness ==
    \E w \in Workers :
        /\ pc[w] = "scraped"
        /\ \E t \in Range(listed[w]) :
              /\ job_status[w][t.source] # "completed"
              /\ t.relevance_score >= 3
              /\ \A b \in Range(batch[w]) : b.source # t.source

Accepted(t) == t.relevance_score # NoScore /\ t.relevance_score >= 3

\* C17: no tender whose relevance_score is below 0.3 or missing is passed to
\* detect_new_tenders, stored or included in a notification email.
C17_BelowThresholdNeverProcessed ==
    /\ \A w \in Workers :
          \A t \in Range(batch[w]) \cup Range(new_tenders[w]) : Accepted(t)
    /\ \A r \in store : Accepted(r)

\* C17 witness: a source whose job completed lists a tender below 0.3 or
\* without a score, and the batch about to be checked does not hold it.
C17_Witness ==
    \E w \in Workers :
        /\ pc[w] = "scraped"
        /\ \E t \in Range(listed[w]) :
              /\ job_status[w][t.source] = "completed"
              /\ ~Accepted(t)
              /\ t \notin Range(batch[w])

\* ------------------------------------------------- ScraperService job table
MaxJobs == 2           \* jobs ever created

\* the values of the enum TenderSource
TenderSource ==
    {"sam.gov", "dodge", "construction.com", "nyc.opendata", "shovels.ai",
     "autodesk_acc", "building_connected", "poptavky.cz", "custom"}

\* the source strings a caller of POST /scrape/start can send
RequestedSources == TenderSource \cup {"bogus"}

\* the sources _scrape_source has a branch for
Scrapable == {"sam.gov", "dodge"}

pipeline == <<store, nextId, now, pc, batch, faults, new_tenders, stored_ids,
              raised, job_status, listed, sweep>>

\* ScrapingJob(id=job_id, source=source_enum, ...): status defaults to
\* pending; results tells whether job_id is a key of ScraperService.results
ScrapingJob(job_id, source) ==
    [job_id |-> job_id, source |-> source, status |-> "pending",
     error_message |-> "None", results |-> FALSE]

\* create_job: TenderSource(source) raises ValueError for a string that is no
\* member of the enum, and nothing is registered; every member is accepted
\* and the job registered with status pending
create_job(source) ==
    /\ Cardinality(jobs) < MaxJobs
    /\ IF source \notin TenderSource
       THEN /\ probe' = <<"create_job", source, "ValueError">>
            /\ UNCHANGED jobs
       ELSE LET job_id == Cardinality(jobs) + 1
            IN /\ jobs' = jobs \cup {ScrapingJob(job_id, source)}
               /\ probe' = <<"create_job", source, "job">>
    /\ UNCHANGED pipeline

\* execute_scraping_job, started as a background task: the job is running
execute_scraping_job(job) ==
    /\ job \in jobs
    /\ job.status = "pending"
    /\ jobs' = (jobs \ {job}) \cup {[job EXCEPT !.status = "running"]}
    /\ UNCHANGED <<pipeline, probe>>

\* mutant: the job is reported completed before its results are stored
_scrape_source_ResultsLater(job) ==
    IF job.source \in Scrapable
    THEN [job EXCEPT !.status = "completed"]
    ELSE [job EXCEPT !.status = "failed", !.error_message = "Unsupported source"]

\* _scrape_source and the end of execute_scraping_job, which has no await in
\* it: completed and the results stored under job_id, or failed with the
\* message of the ValueError raised for a source without a branch
_scrape_source(job) ==
    IF job.source \in Scrapable
    THEN [job EXCEPT !.status = "completed", !.results = TRUE]
    ELSE [job EXCEPT !.status = "failed", !.error_message = "Unsupported source"]

FinishJob(job) ==
    /\ job \in jobs
    /\ job.status = "running"
    /\ jobs' = (jobs \ {job}) \cup {_scrape_source(job)}
    /\ UNCHANGED <<pipeline, probe>>

JobNext ==
    \/ \E source \in RequestedSources : create_job(source)
    \/ \E job \in jobs : execute_scraping_job(job)
    \/ \E job \in jobs : FinishJob(job)

JobSpec == Init /\ [][JobNext]_vars

ScrapeOne(w) == \E t \in Tenders : ScrapeResults(w, <<t>>)

\* detect_new_tenders with every storage read succeeding
DetectOk(w) ==
    /\ Detect(w)
    /\ \A i \in 1..Len(batch[w]) : faults'[w][i] = "none"

\* The scheduled task, a manually triggered scan and a retried task are
\* separate Celery tasks running _daily_tender_scan_async on the same
\* configs; no lock is taken, so their steps interleave.  No worker dies, no
\* storage read fails and each cycle handles a single tender.
ConcNext ==
    \/ \E w \in Cycles : ScrapeOne(w)
    \/ \E w \in Cycles : DetectOk(w)
    \/ \E w \in Cycles : Skip(w)
    \/ \E w \in Cycles : StoreInsert(w)
    \/ \E w \in Cycles : StoreMarkNotified(w)
    \/ \E w \in Cycles : StoreCleanup(w)
    \/ \E w \in Cycles : Notify(w)
    \/ \E w \in Cycles : TaskRetry(w)

ConcSpec == Init /\ [][ConcNext]_vars

SameCandidate(r1, r2) ==
    /\ r1.source = r2.source
    /\ r1.source_url = r2.source_url
    /\ r1.tender_id = r2.tender_id
    /\ r1.title = r2.title

\* C16: scan cycles being serialized, two cycles never both pass the
\* duplicate check for the same candidate and both insert it: no candidate is
\* stored twice.
C16_NoDoubleInsert ==
    \A r1, r2 \in store : r1.id # r2.id => ~SameCandidate(r1, r2)

\* --------------------------------------- Crawl4AIScraper._calculate_relevance
MaxKeywords == 2       \* longest keyword list the scorer is first called with

BaseScore == 3         \* score = 0.3
TitleBonus == 3        \* score += 0.3
TextBonus == 2         \* score += 0.2
IndustryBonus == 1     \* score += 0.1
MaxScore == 10         \* min(score, 1.0)

Str_door == <<"d", "o", "o", "r">>
Str_window == <<"w", "i", "n", "d", "o", "w">>

industry_terms ==
    {Str_window, Str_door,
     <<"g", "l", "a", "z", "i", "n", "g">>,
     <<"f", "e", "n", "e", "s", "t", "r", "a", "t", "i", "o", "n">>,
     <<"c", "u", "r", "t", "a", "i", "n", " ", "w", "a", "l", "l">>,
     <<"s", "t", "o", "r", "e", "f", "r", "o", "n", "t">>}

\* Python's "sub in text"
InText(sub, text) ==
    \E i \in 1..(Len(text) - Len(sub) + 1) : Slice(text, i, Len(sub)) = sub

\* the loop over keywords: 0.3 for a keyword found in the title, 0.2 for one
\* found only in the description
RECURSIVE KeywordScore(_, _, _)
KeywordScore(keywords, title, text) ==
    IF keywords = <<>> THEN 0
    ELSE LET keyword == Lower(Head(keywords))
             bonus == IF ~InText(keyword, text) THEN 0
                      ELSE IF InText(keyword, Lower(title)) THEN TitleBonus
                      ELSE TextBonus
         IN bonus + KeywordScore(Tail(keywords), title, text)

\* mutant: the score is returned without the cap
Cap_None(score) == score

\* min(score, 1.0)
Cap(score) == IF score < MaxScore THEN score ELSE MaxScore

_calculate_relevance(title, description, keywords) ==
    LET text == Lower(title \o <<" ">> \o description)
    IN Cap(BaseScore
           + KeywordScore(keywords, title, text)
           + IndustryBonus * Cardinality({term \in industry_terms : InText(term, text)}))

RelTitles == {<<>>, <<"W">>, Str_door, Str_window}
RelDescriptions == {<<>>, <<"x">>, Str_door}
RelKeywords == {<<"w">>, <<"X">>, Str_door}

\* the scorer has not been called
RelevanceInit ==
    /\ Idle
    /\ jobs = {}
    /\ probe \in [title : RelTitles, description : RelDescriptions,
                  keywords : SeqsUpTo(RelKeywords, MaxKeywords),
                  score : {NoScore}, before : {NoScore}]

\* _calculate_relevance(title, description, keywords)
ScoreRelevance ==
    /\ probe.score = NoScore
    /\ probe' = [probe EXCEPT
                    !.score = _calculate_relevance(probe.title, probe.description,
                                                   probe.keywords)]
    /\ UNCHANGED <<pipeline, jobs>>

\* the same text scored again with the keyword k put into the list at place
\* i; before keeps the score of the shorter list
ScoreWithKeyword(k, i) ==
    /\ probe.score # NoScore
    /\ probe.before = NoScore
    /\ LET longer == SubSeq(probe.keywords, 1, i - 1) \o <<k>>
                     \o SubSeq(probe.keywords, i, Len(probe.keywords))
       IN probe' = [probe EXCEPT
                       !.keywords = longer,
                       !.before = probe.score,
                       !.score = _calculate_relevance(probe.title,
                                                      probe.description, longer)]
    /\ UNCHANGED <<pipeline, jobs>>

RelevanceNext ==
    \/ ScoreRelevance
    \/ \E k \in RelKeywords : \E i \in 1..(Len(probe.keywords) + 1) :
          ScoreWithKeyword(k, i)

RelevanceSpec == RelevanceInit /\ [][RelevanceNext]_vars

\* C18: the score _calculate_relevance returns lies in [0,1], and scoring the
\* same text with one more keyword that matches it never gives a lower score.
C18_BoundedAndMonotonic ==
    /\ probe.score # NoScore => (0 <= probe.score /\ probe.score <= 10)
    /\ probe.before # NoScore => probe.before <= probe.score

\* C18 witness: a keyword that matches the text was added to a list whose
\* score was below 1.0, and the score rose to the cap.
C18_Witness ==
    /\ probe.before # NoScore
    /\ probe.before < probe.score
    /\ probe.score = 10
    /\ Len(probe.keywords) = MaxKeywords + 1

\* ---------------------------- PoptavkyCzScraper.calculate_relevance_score
\* Weights and the summed score are in tenths, the returned score in
\* hundredths (round(score, 2)).
ExactKeywordBonus == 5     \* score += 0.5
MaxPossibleScore == 30     \* max_possible_score = 3.0

Str_montaz == <<"m", "o", "n", "t", "a", "z">>
Str_oken == <<"o", "k", "e", "n">>
Str_sit == <<"s", "i", "t">>
Str_skla == <<"s", "k", "l", "a">>
Str_uklid == <<"u", "k", "l", "i", "d">>

TargetTitles == {<<>>, Str_uklid, Str_oken, Str_montaz, Str_skla}
TargetDescriptions == {<<>>, Str_oken, Str_sit, Str_uklid}
TargetKeywords == {<<>>, Str_oken, <<"x">>}

\* fenestration_keywords: the entries that occur in a text made of the
\* titles and descriptions above (no other entry of the dict is a substring
\* of such a text)
fenestration_keywords ==
    {[word |-> Str_montaz \o <<" ">> \o Str_oken, weight |-> 30],
     [word |-> Str_skla, weight |-> 15],
     [word |-> Str_montaz, weight |-> 12],
     [word |-> Str_oken, weight |-> 5],
     [word |-> Str_uklid, weight |-> -30],
     [word |-> Str_sit, weight |-> -10]}

RECURSIVE SumWeights(_)
SumWeights(entries) ==
    IF entries = {} THEN 0
    ELSE LET e == CHOOSE x \in entries : TRUE
         IN e.weight + SumWeights(entries \ {e})

\* round(min(score / 3.0, 1.0), 2), in hundredths: the nearest hundredth of
\* score / 3 (10 * score / 3 is never half-way between two integers)
Normalised(score) ==
    LET hundredths == (20 * score + 3) \div 6
    IN IF score < MaxPossibleScore THEN hundredths ELSE 100

calculate_relevance_score(title, description, keyword) ==
    IF title = <<>> /\ description = <<>> THEN 0
    ELSE LET text == Lower(title \o <<" ">> \o description)
             keyword_lower == Lower(keyword)
             found == {e \in fenestration_keywords : InText(e.word, text)}
             bonus == IF keyword_lower # <<>> /\ InText(keyword_lower, text)
                      THEN ExactKeywordBonus ELSE 0
         IN Normalised(SumWeights(found) + bonus)

\* the scorer has not been called
TargetInit ==
    /\ Idle
    /\ jobs = {}
    /\ probe \in [title : TargetTitles, description : TargetDescriptions,
                  keyword : TargetKeywords, score : {0}, called : {FALSE}]

\* calculate_relevance_score(title, description, keyword)
ScoreTarget ==
    /\ ~probe.called
    /\ probe' = [probe EXCEPT
                    !.called = TRUE,
                    !.score = calculate_relevance_score(probe.title, probe.description,
                                                        probe.keyword)]
    /\ UNCHANGED <<pipeline, jobs>>

TargetSpec == TargetInit /\ [][ScoreTarget]_vars

\* C19: the score calculate_relevance_score returns lies in [0,1]; it is
\* never negative, also when only penalty terms match.
C19_ScoreInUnitInterval ==
    probe.called => (0 <= probe.score /\ probe.score <= 100)

\* ------------------------------------------- similarity of two records
\* _calculate_similarity applied to a pair of records and to the exchanged
\* pair: the candidate dict of one comparison is the stored row of the other.
MaxTitleLen == 3
TitleChars == {"c", "w", "d"}
SimTitles == SeqsUpTo(TitleChars, MaxTitleLen)

\* a record with the given title; description and location are equal on both
\* sides, so only the title comparison differs between pairs
SimRecord(title) == Tender(NoId, title, Str_d, "s1", "", Str_l, NoScore)

NoSimilarity == [num |-> 0, den |-> 0]     \* not computed yet

SimilarityInit ==
    /\ Idle
    /\ jobs = {}
    /\ probe \in [first : SimTitles, second : SimTitles,
                  forward : {NoSimilarity}, backward : {NoSimilarity}]

\* _calculate_similarity(first as candidate, second as stored row)
CompareForward ==
    /\ probe.forward = NoSimilarity
    /\ probe' = [probe EXCEPT
                    !.forward = _calculate_similarity(SimRecord(probe.first),
                                                      SimRecord(probe.second))]
    /\ UNCHANGED <<pipeline, jobs>>

\* _calculate_similarity(second as candidate, first as stored row)
CompareBackward ==
    /\ probe.backward = NoSimilarity
    /\ probe' = [probe EXCEPT
                    !.backward = _calculate_similarity(SimRecord(probe.second),
                                                       SimRecord(probe.first))]
    /\ UNCHANGED <<pipeline, jobs>>

SimilarityNext == CompareForward \/ CompareBackward

SimilaritySpec == SimilarityInit /\ [][SimilarityNext]_vars

\* C20: the weighted similarity is symmetric: computed with the two records
\* exchanged, over the same title, description and location values, it is
\* the same number.
C20_SimilaritySymmetric ==
    (probe.forward # NoSimilarity /\ probe.backward # NoSimilarity)
        => FracEq(probe.forward, probe.backward)

\* ------------------------- EagleServiceClient.wait_for_job_completion
\* The client polls the status of one job of the job table.  Time is in
\* seconds; probe is the frame of the call.
MaxTimeout == 2        \* largest timeout the call is made with
MaxPollInterval == 2   \* largest poll_interval the call is made with
MaxPollTime == 1       \* longest a status request takes

WatchedSources == {"sam.gov", "construction.com"}

\* the job was created and the call has just been made
WaitInit ==
    /\ Idle
    /\ \E source \in WatchedSources : jobs = {ScrapingJob(1, source)}
    /\ probe \in [job_id : {1}, timeout : 0..MaxTimeout,
                  poll_interval : 1..MaxPollInterval, elapsed : {0},
                  at : {"check"}, polled : {"none"}, result : {"not returned"}]

\* "if elapsed > timeout: return None"
CheckTimeout ==
    /\ probe.at = "check"
    /\ probe' = IF probe.elapsed > probe.timeout
                THEN [probe EXCEPT !.at = "returned", !.result = "None"]
                ELSE [probe EXCEPT !.at = "poll"]
    /\ UNCHANGED <<pipeline, jobs>>

\* mutant: the status is returned as soon as the job is running
AfterPoll_ReturnsRunning(status) ==
    IF status \in {"running", "completed", "failed"} THEN status ELSE "sleep"

\* what follows a status poll that succeeded: the job status is returned for
\* completed and failed, anything else goes to asyncio.sleep(poll_interval)
AfterPoll(status) ==
    IF status \in {"completed", "failed"} THEN status ELSE "sleep"

\* "job_status = await self.get_job_status(job_id)" and the tests on it;
\* get_job_status returns None for a response other than 200 and for any
\* exception of the request
PollStatus ==
    /\ probe.at = "poll"
    /\ \E took \in 0..MaxPollTime :
          \/ probe' = [probe EXCEPT !.elapsed = @ + took, !.polled = "error",
                                    !.at = "returned", !.result = "None"]
          \/ \E job \in jobs :
                /\ job.job_id = probe.job_id
                /\ probe' = IF AfterPoll(job.status) = "sleep"
                            THEN [probe EXCEPT !.elapsed = @ + took,
                                               !.polled = job.status,
                                               !.at = "sleep"]
                            ELSE [probe EXCEPT !.elapsed = @ + took,
                                               !.polled = job.status,
                                               !.at = "returned",
                                               !.result = AfterPoll(job.status)]
    /\ UNCHANGED <<pipeline, jobs>>

\* "await asyncio.sleep(poll_interval)", then the loop starts over
SleepPollInterval ==
    /\ probe.at = "sleep"
    /\ probe' = [probe EXCEPT !.elapsed = @ + probe.poll_interval, !.at = "check"]
    /\ UNCHANGED <<pipeline, jobs>>

\* the Eagle service runs the job meanwhile
WaitNext ==
    \/ CheckTimeout
    \/ PollStatus
    \/ SleepPollInterval
    \/ \E job \in jobs : execute_scraping_job(job)
    \/ \E job \in jobs : FinishJob(job)

WaitSpec == WaitInit /\ [][WaitNext]_vars

\* C21: wait_for_job_completion returns None or a job status that is
\* completed or failed: the status as soon as a poll reports completed or
\* failed, None when the elapsed time exceeds the timeout or a poll fails, and
\* it does not return while the job is reported pending or running and the
\* timeout has not elapsed.
C21_ReturnsNoneOrFinalStatus ==
    /\ [](probe.result \in {"not returned", "None", "completed", "failed"})
    /\ [][/\ (probe.at = "poll" /\ probe'.polled \in {"completed", "failed"})
               => (probe'.at = "returned" /\ probe'.result = probe'.polled)
          /\ (probe.at = "poll" /\ probe'.polled = "error")
               => (probe'.at = "returned" /\ probe'.result = "None")
          /\ (probe.at = "check" /\ probe.elapsed > probe.timeout)
               => (probe'.at = "returned" /\ probe'.result = "None")
          /\ (probe.at = "poll" /\ probe'.polled \in {"pending", "running"})
               => probe'.at = "sleep"
          /\ (probe.at = "check" /\ probe.elapsed <= probe.timeout)
               => probe'.at = "poll"
          /\ probe.at = "sleep" => probe'.at = "check"]_probe

\* C21 witness: the call polled twice or more, saw the job running and
\* returned None once the timeout had elapsed.
C21_Witness ==
    /\ probe.at = "returned"
    /\ probe.result = "None"
    /\ probe.polled = "running"
    /\ probe.elapsed > probe.timeout
    /\ probe.elapsed > probe.poll_interval

\* ---------------------------------------------- life of a scraping job
\* get_job_results: None unless job_id is a key of jobs and of results
get_job_results(job_id) ==
    IF \E job \in jobs : job.job_id = job_id /\ job.results
    THEN "results" ELSE "None"

\* the status changes execute_scraping_job makes, as the other coroutines of
\* the event loop can see them
StatusMoves == {<<"pending", "running">>, <<"running", "completed">>,
                <<"running", "failed">>}

NoFaults(n) == [i \in 1..n |-> "none"]

\* detect_new_tenders run again on the batch store_new_tenders has just
\* returned for, every storage read succeeding
Redetected(w) == detect_new_tenders(new_tenders[w], store, NoFaults(Len(new_tenders[w])))

\* C23: once store_new_tenders has succeeded for a batch, detect_new_tenders
\* run again on that batch against the store as it is left returns no
\* candidate that has a source_url or a tender_id, so a retried cycle neither
\* stores nor emails such a tender again.
C23_RetryFindsNothingNew ==
    \A w \in Workers :
        pc[w] = "stored" =>
            \A t \in Range(Redetected(w)) : t.source_url = "" /\ t.tender_id = NoId

\* ------------------------------------------- the task daily_tender_scan
\* probe is the Celery request of the task: retries, the executions made for
\* it and the countdowns its retries were scheduled with.
max_retries == 3       \* @celery_app.task(bind=True, max_retries=3)
RetryLimit == 3        \* if self.request.retries < 3
BaseCountdown == 60    \* countdown=60 * (2**self.request.retries)

\* mutant: every retry is scheduled after the same delay
Countdown_Constant(retries) == BaseCountdown

Countdown(retries) == BaseCountdown * 2 ^ retries

\* what the except branch of the task does with the exception: self.retry
\* (which raises the exception itself once max_retries is used up), or raise
OnException(retries) ==
    IF retries < RetryLimit /\ retries < max_retries THEN "retry" ELSE "raise"

Queued == [task |-> "queued", retries |-> 0, executions |-> 0, countdowns |-> <<>>]

TaskInit ==
    /\ Idle
    /\ jobs = {}
    /\ probe = Queued

\* a worker takes the task from the queue and calls _daily_tender_scan_async
TaskStart ==
    /\ probe.task = "queued"
    /\ probe' = [probe EXCEPT !.task = "running", !.executions = @ + 1]
    /\ UNCHANGED <<pipeline, jobs>>

\* a step of the scan cycle the task runs
TaskStep(w) ==
    /\ probe.task = "running"
    /\ \/ ScrapeOne(w)
       \/ DetectOk(w)
       \/ Skip(w)
       \/ StoreInsert(w)
       \/ StoreMarkNotified(w)
       \/ StoreCleanup(w)
       \/ Notify(w)

\* _daily_tender_scan_async returns its result and the task returns it
TaskReturns(w) ==
    /\ probe.task = "running"
    /\ pc[w] = "idle"
    /\ probe' = [probe EXCEPT !.task = "succeeded"]
    /\ UNCHANGED <<pipeline, jobs>>

\* the exception of store_new_tenders leaves _daily_tender_scan_async: the
\* task is sent again with retries + 1 and the countdown, or it fails for good
TaskRaises(w) ==
    /\ probe.task = "running"
    /\ pc[w] = "failed"
    /\ probe' = IF OnException(probe.retries) = "retry"
                THEN [probe EXCEPT !.task = "queued",
                                   !.retries = @ + 1,
                                   !.countdowns = Append(@, Countdown(probe.retries))]
                ELSE [probe EXCEPT !.task = "failed"]
    /\ pc' = [pc EXCEPT ![w] = "idle"]
    /\ Forget(w)
    /\ sweep' = "none"
    /\ UNCHANGED <<store, nextId, now, jobs>>

\* the beat schedule sends the task of the next day
BeatSchedule ==
    /\ probe.task \in {"succeeded", "failed"}
    /\ probe' = Queued
    /\ UNCHANGED <<pipeline, jobs>>

TaskNext ==
    \/ TaskStart
    \/ \E w \in Workers : TaskStep(w)
    \/ \E w \in Workers : TaskReturns(w)
    \/ \E w \in Workers : TaskRaises(w)
    \/ BeatSchedule

TaskSpec == TaskInit /\ [][TaskNext]_vars

\* C24: the n-th retry (n = 0, 1, 2) of a failing daily_tender_scan is
\* scheduled with countdown 60 * 2^n, at most 3 retries and 4 executions are
\* made, the failure of the execution after the third retry is final, and
\* store_new_tenders itself does not retry: its storage error ends the cycle.
C24_BoundedBackoff ==
    /\ [](/\ probe.retries <= 3
          /\ probe.executions <= 4
          /\ probe.executions <= probe.retries + 1
          /\ Len(probe.countdowns) = probe.retries
          /\ \A n \in 0..2 : n < Len(probe.countdowns)
                => probe.countdowns[n + 1] = 60 * 2 ^ n
          /\ probe.task = "failed" => (probe.retries = 3 /\ probe.executions = 4))
    /\ [][\A w \in Workers :
             /\ (probe.task = "running" /\ pc[w] = "failed" /\ probe.retries < 3)
                   => (probe'.task = "queued" /\ probe'.retries = probe.retries + 1)
             /\ (probe.task = "running" /\ pc[w] = "failed" /\ probe.retries = 3)
                   => probe'.task = "failed"
             /\ (raised[w] = "none" /\ raised'[w] \in {"insert", "flag"})
                   => pc'[w] = "failed"]_vars

\* C24 witness: the task failed for good after retries scheduled 60, 120 and
\* 240 seconds ahead.
C24_Witness ==
    /\ probe.task = "failed"
    /\ probe.executions = 4
    /\ probe.countdowns = <<60, 120, 240>>

\* --------------------------------- a whole scan over the monitoring configs
\* _daily_tender_scan_async and _manual_scan_async with the table
\* monitoring_configs; probe is the frame of the scan: the configs table it
\* reads, its position, scan_results, the emails it attempted, the tenders it
\* stored and the result it returns.
ConfigNames == <<"a", "b">>        \* the rows of monitoring_configs, in query order
RequestedNames == {"None", "a", "zz"}   \* config_name of a manual scan

\* what a source of a config lists in a scan
ScanTenders == {T1, T3, T4}

ConfigRows == [is_active : BOOLEAN, email_recipients : BOOLEAN,
               send_empty_reports : BOOLEAN]

\* db.query(MonitoringConfig).filter_by(is_active=True).all()
ActiveConfigs(table) ==
    SelectSeq(ConfigNames, LAMBDA name : table[name].is_active)

\* ... .filter_by(name=config_name) when config_name is given
MatchingConfigs(table, config_name) ==
    SelectSeq(ActiveConfigs(table),
              LAMBDA name : config_name = "None" \/ name = config_name)

ScanFrame(caller, config_name, table) ==
    [caller |-> caller, config_name |-> config_name, table |-> table,
     at |-> "called", monitoring_configs |-> <<>>, done |-> 0,
     scan_results |-> <<>>, emails |-> <<>>, stored |-> <<>>, found |-> <<>>,
     error |-> "none",
     result |-> [status |-> "none", configs_processed |-> 0]]

ScanInit ==
    /\ Idle
    /\ jobs = {}
    /\ \E table \in [{"a", "b"} -> ConfigRows] :
          \/ probe = ScanFrame("daily", "None", table)
          \/ \E config_name \in RequestedNames :
                probe = ScanFrame("manual", config_name, table)

\* _manual_scan_async: an error result when no active config matches,
\* otherwise "return await _daily_tender_scan_async()"
ManualScan ==
    /\ probe.at = "called"
    /\ probe.caller = "manual"
    /\ probe' = IF MatchingConfigs(probe.table, probe.config_name) = <<>>
                THEN [probe EXCEPT !.at = "returned", !.result.status = "error"]
                ELSE [probe EXCEPT !.at = "start"]
    /\ UNCHANGED <<pipeline, jobs>>

\* _daily_tender_scan_async up to the loop over the configs: the health
\* check and the query of the active configs
StartScan ==
    /\ \/ probe.at = "called" /\ probe.caller = "daily"
       \/ probe.at = "start"
    /\ \E is_healthy \in BOOLEAN :
          probe' = IF ~is_healthy
                   THEN [probe EXCEPT !.at = "returned", !.result.status = "failed"]
                   ELSE IF ActiveConfigs(probe.table) = <<>>
                   THEN [probe EXCEPT !.at = "returned", !.result.status = "completed"]
                   ELSE [probe EXCEPT !.at = "loop",
                                      !.monitoring_configs = ActiveConfigs(probe.table)]
    /\ UNCHANGED <<pipeline, jobs>>

SourceOrder == <<"s1", "s2">>      \* config.sources

\* the entries "except Exception" inside the loop over the sources appends
SourceErrors(name, outcome) ==
    LET raising == SelectSeq(SourceOrder, LAMBDA source : outcome[source] = "raised")
    IN [i \in 1..Len(raising) |->
            [config |-> name, source |-> raising[i], status |-> "error",
             new_tenders |-> 0]]

\* the entry appended for a config whose batch went through detect_new_tenders
ConfigEntry(name, count) ==
    [config |-> name, source |-> "None", status |-> "scanned", new_tenders |-> count]

StoreFaults == {"none", "insert", "flag", "cleanup"}

\* store_new_tenders(new) as one call: the rows it leaves in the table when
\* the commit named by fault raises ("none": no storage error)
StoreNewTenders(new, fault, rows, first, today, after) ==
    LET added == NewRows(new, first, today)
        flagged == {[a EXCEPT !.is_notified = TRUE] : a \in added}
    IN /\ fault # "insert" =>
             (~ViolatesUnique(rows, added) /\ first + Len(new) <= MaxIds)
       /\ CASE fault = "insert" -> after = rows
            [] fault = "flag" -> after = rows \cup added
            [] fault = "cleanup" -> after = rows \cup flagged
            [] OTHER -> \E victims \in SUBSET (rows \cup flagged) :
                           /\ OldestLow(rows \cup flagged, victims)
                           /\ after = (rows \cup flagged) \ victims

\* how the call ends: it returns ("stored") or raises ("failed")
StoreOutcome(fault) == IF fault = "none" THEN "stored" ELSE AfterStoreError(fault)

\* mutant: an exception met while scraping a source leaves the scan
AbortsScan_OnSourceError(outcome, store_outcome) ==
    \/ store_outcome = "failed"
    \/ \E source \in Sources : outcome[source] = "raised"

\* what makes the scan raise while a config is processed: only the exception
\* of store_new_tenders; whatever happens to a source ends in "continue"
AbortsScan(outcome, store_outcome) == store_outcome = "failed"

\* mutant: the notification is sent whether or not store_new_tenders returned
EmailsNewTenders_Always(config, store_outcome) == config.email_recipients

\* the notification of new tenders is attempted after store_new_tenders has
\* returned, for a config with recipients
EmailsNewTenders(config, store_outcome) ==
    store_outcome = "stored" /\ config.email_recipients

\* the empty report is attempted for a config with send_empty_reports and
\* recipients
EmailsEmptyReport(config) == config.send_empty_reports /\ config.email_recipients

Deliveries == {"success", "error", "raised"}   \* how the email service answers

\* the body of "for config in monitoring_configs" for the next config, on a
\* batch that holds relevant tenders of which some are new
ProcessNewTenders(name, config, outcome, config_new_tenders, new) ==
    \E fault \in StoreFaults : \E after \in SUBSET (store \cup
            NewRows(new, nextId, now) \cup
            {[a EXCEPT !.is_notified = TRUE] : a \in NewRows(new, nextId, now)}) :
    \E delivery \in Deliveries :
        LET store_outcome == StoreOutcome(fault)
            email == IF EmailsNewTenders(config, store_outcome)
                     THEN <<[config |-> name, kind |-> "new tenders",
                             tenders |-> new, delivery |-> delivery]>>
                     ELSE <<>>
            kept == IF store_outcome = "stored"
                    THEN <<[config |-> name, tenders |-> new]>> ELSE <<>>
        IN /\ StoreNewTenders(new, fault, store, nextId, now, after)
           /\ (email = <<>> => delivery = "success")
           /\ store' = after
           /\ nextId' = IF fault = "insert" THEN nextId ELSE nextId + Len(new)
           /\ probe' = IF AbortsScan(outcome, store_outcome)
                       THEN [probe EXCEPT
                               !.at = "raised",
                               !.error = IF store_outcome = "failed"
                                         THEN "store_new_tenders" ELSE "source",
                               !.scan_results = @ \o SourceErrors(name, outcome),
                               !.emails = @ \o email,
                               !.stored = @ \o kept]
                       ELSE [probe EXCEPT
                               !.done = @ + 1,
                               !.scan_results = @ \o SourceErrors(name, outcome)
                                   \o <<ConfigEntry(name, Len(new))>>,
                               !.emails = @ \o email,
                               !.stored = @ \o kept,
                               !.found = Append(@, [config |-> name,
                                                    relevant |-> Len(config_new_tenders),
                                                    new_tenders |-> Len(new)])]

\* the same on a batch without a new tender: nothing at all when the batch
\* is empty, the empty report and an entry when every tender is a duplicate
ProcessNothingNew(name, config, outcome, config_new_tenders) ==
    \E delivery \in Deliveries :
        LET email == IF config_new_tenders # <<>> /\ EmailsEmptyReport(config)
                     THEN <<[config |-> name, kind |-> "empty report",
                             tenders |-> <<>>, delivery |-> delivery]>>
                     ELSE <<>>
            entry == IF config_new_tenders # <<>>
                     THEN <<ConfigEntry(name, 0)>> ELSE <<>>
        IN /\ (email = <<>> => delivery = "success")
           /\ UNCHANGED <<store, nextId>>
           /\ probe' = [probe EXCEPT
                           !.done = @ + 1,
                           !.scan_results = @ \o SourceErrors(name, outcome) \o entry,
                           !.emails = @ \o email,
                           !.found = Append(@, [config |-> name,
                                                relevant |-> Len(config_new_tenders),
                                                new_tenders |-> 0])]

ProcessConfig ==
    /\ probe.at = "loop"
    /\ probe.done < Len(probe.monitoring_configs)
    /\ \E outcome \in [Sources -> Outcomes] :
       \E results \in SeqsUpTo(ScanTenders, MaxBatch) :
          LET name == probe.monitoring_configs[probe.done + 1]
              config == probe.table[name]
              config_new_tenders == relevant_tenders(source_results(results, outcome))
              new == detect_new_tenders(config_new_tenders, store,
                                                NoFaults(Len(config_new_tenders)))
          IN IF new # <<>>
             THEN ProcessNewTenders(name, config, outcome, config_new_tenders, new)
             ELSE ProcessNothingNew(name, config, outcome, config_new_tenders)
    /\ UNCHANGED <<now, pc, locals, sweep, jobs>>

\* the result returned after the loop
FinishScan ==
    /\ probe.at = "loop"
    /\ probe.done = Len(probe.monitoring_configs)
    /\ probe' = [probe EXCEPT
                    !.at = "returned",
                    !.result = [status |-> "completed",
                                configs_processed |-> Len(probe.monitoring_configs)]]
    /\ UNCHANGED <<pipeline, jobs>>

ScanNext ==
    \/ ManualScan
    \/ StartScan
    \/ ProcessConfig
    \/ FinishScan

ScanSpec == ScanInit /\ [][ScanNext]_vars

\* C22: with the Eagle service healthy and an active config, what happens
\* to a single source (no job, a failed or timed-out job, an exception) does
\* not abort the scan: the other sources and configs are processed and the
\* scan returns status completed with configs_processed equal to the number
\* of active configs.
C22_SourceFailureDoesNotAbort ==
    /\ [](probe.at = "raised" => probe.error = "store_new_tenders")
    /\ []((probe.at = "returned" /\ probe.monitoring_configs # <<>>)
            => /\ probe.result.status = "completed"
               /\ probe.result.configs_processed = Len(ActiveConfigs(probe.table))
               /\ probe.done = Len(ActiveConfigs(probe.table))
               /\ Len(probe.found) = probe.done)
    /\ [][(probe.at = "loop" /\ probe'.at = "loop" /\ probe' # probe)
            => /\ probe'.done = probe.done + 1
               /\ probe'.found[probe'.done].config = probe.monitoring_configs[probe'.done]]_vars

\* C22 witness: a scan over two configs returned completed although scraping
\* source s1 raised for the first config, whose tender of source s2 was
\* stored all the same.
C22_Witness ==
    /\ probe.at = "returned"
    /\ probe.result = [status |-> "completed", configs_processed |-> 2]
    /\ \E i \in 1..Len(probe.scan_results) :
          /\ probe.scan_results[i].config = "a"
          /\ probe.scan_results[i].status = "error"
          /\ probe.scan_results[i].source = "s1"
    /\ \E i \in 1..Len(probe.stored) :
          /\ probe.stored[i].config = "a"
          /\ \E t \in Range(probe.stored[i].tenders) : t.source = "s2"

\* C25: a notification of new tenders is attempted only after
\* store_new_tenders has returned for exactly those tenders; when it raised,
\* no email goes out for the batch, and every tender of a notification was
\* stored in the same scan.
C25_EmailOnlyAfterStore ==
    /\ [](\A i \in 1..Len(probe.emails) :
             probe.emails[i].kind = "new tenders" =>
                \E k \in 1..Len(probe.stored) :
                   /\ probe.stored[k].config = probe.emails[i].config
                   /\ probe.stored[k].tenders = probe.emails[i].tenders)
    /\ [][Len(probe'.emails) > Len(probe.emails) =>
            LET email == probe'.emails[Len(probe'.emails)]
            IN email.kind = "new tenders" =>
                 /\ probe'.at # "raised"
                 /\ nextId' = nextId + Len(email.tenders)
                 /\ Len(probe'.stored) = Len(probe.stored) + 1]_vars

\* C25 witness: a notification was attempted and raised; its tenders are in
\* the store, flagged as notified.
C25_Witness ==
    \E i \in 1..Len(probe.emails) :
        /\ probe.emails[i].kind = "new tenders"
        /\ probe.emails[i].delivery = "raised"
        /\ \A t \in Range(probe.emails[i].tenders) :
              \E r \in store : r.tender_id = t.tender_id /\ r.source_url = t.source_url
                                /\ r.is_notified

\* C26: a manual scan triggered with a config name scrapes, stores and
\* notifies only for the active config of that name and processes no other
\* config; when no active config has the name it returns an error result
\* and scans nothing.
C26_ManualScanTargetsConfig ==
    (probe.caller = "manual" /\ probe.config_name # "None") =>
        /\ \A i \in 1..Len(probe.found) : probe.found[i].config = probe.config_name
        /\ \A i \in 1..Len(probe.emails) : probe.emails[i].config = probe.config_name
        /\ \A i \in 1..Len(probe.stored) : probe.stored[i].config = probe.config_name
        /\ MatchingConfigs(probe.table, probe.config_name) = <<>> =>
              /\ probe.at \in {"called", "returned"}
              /\ probe.at = "returned" => probe.result.status = "error"
              /\ probe.found = <<>>

\* C27: for every config a scan processed without finding a new tender for
\* it (all scraped tenders duplicates, or no relevant tender scraped at all)
\* scan_results holds an entry with new_tenders = 0, and the empty report is
\* sent when the config has send_empty_reports and recipients.
C27_NothingNewIsReported ==
    \A i \in 1..Len(probe.found) :
        probe.found[i].new_tenders = 0 =>
            LET name == probe.found[i].config
            IN /\ \E k \in 1..Len(probe.scan_results) :
                     /\ probe.scan_results[k].config = name
                     /\ probe.scan_results[k].status = "scanned"
                     /\ probe.scan_results[k].new_tenders = 0
               /\ EmailsEmptyReport(probe.table[name]) =>
                     \E k \in 1..Len(probe.emails) :
                        /\ probe.emails[k].config = name
                        /\ probe.emails[k].kind = "empty report"

\* ------------------------------------- the fuzzy step on a single record
\* A candidate is checked against a table holding one row; the fields that
\* enter the similarity vary over empty, missing and equal or different text.
FieldTitles == {<<>>, Str_wc, Str_Wx}
FieldDescriptions == {<<>>, Str_d}
FieldLocations == {<<>>, NULL, Str_l}

FieldCandidates ==
    {Tender(id, title, desc, "s1", url, loc, 7) :
        id \in {NoId, "i1"}, title \in FieldTitles, desc \in FieldDescriptions,
        url \in {"", "u1"}, loc \in FieldLocations}

FieldRows ==
    {Row(1, Tender("i1", title, desc, "s1", "u1", loc, 7), 0) :
        title \in FieldTitles, desc \in FieldDescriptions, loc \in FieldLocations}

FieldsInit ==
    /\ Idle
    /\ jobs = {}
    /\ probe \in [candidate : FieldCandidates, row : FieldRows,
                  similarity : {NoSimilarity}, similar : {FALSE},
                  new : {<<>>}, checked : {FALSE}]

\* detect_new_tenders([candidate]) on the table {row}, with the similarity
\* and the verdict of the fuzzy step it goes through
CheckCandidate ==
    /\ ~probe.checked
    /\ probe' = [probe EXCEPT
                    !.checked = TRUE,
                    !.similarity = _calculate_similarity(probe.candidate, probe.row),
                    !.similar = _is_similar_tender(probe.candidate, {probe.row}, FALSE),
                    !.new = detect_new_tenders(<<probe.candidate>>, {probe.row},
                                               NoFaults(1))]
    /\ UNCHANGED <<pipeline, jobs>>

FieldsSpec == FieldsInit /\ [][CheckCandidate]_vars

NonePending ==
    \A r \in store :
        ~r.is_notified => \E w \in Workers : pc[w] = "inserted" /\ r.id \in stored_ids[w]

\* get_duplicate_statistics: pending_notifications
pending_notifications == Cardinality({r \in store : ~r.is_notified})

\* C29: when store_new_tenders returns normally every record it stored has
\* is_notified = true, before the notification email is attempted and
\* whatever becomes of it (the email step changes no record); and as long as
\* no crash and no storage error occurs, no record stays unnotified:
\* pending_notifications is 0 whenever no cycle is between its two commits.
C29_NotifiedOnReturn ==
    /\ [](\A w \in Workers :
             pc[w] = "stored" =>
                \A r \in store : r.id \in stored_ids[w] => r.is_notified)
    /\ [][\A w \in Workers : (pc[w] = "stored" /\ pc'[w] = "idle") => store' = store]_vars
    /\ [][(NonePending /\ ~Failure) => NonePending']_vars
    /\ []((NonePending /\ \A w \in Workers : pc[w] # "inserted")
            => pending_notifications = 0)

\* C29 witness: store_new_tenders has returned for a batch of two, both
\* records are flagged, and the email has not been attempted yet.
C29_Witness ==
    \E w \in Workers :
        /\ pc[w] = "stored"
        /\ Cardinality(stored_ids[w]) = MaxBatch
        /\ \A i \in stored_ids[w] : \E r \in store : r.id = i /\ r.is_notified
        /\ pending_notifications = 0

====
